---- MODULE Spec2Model ----
(***************************************************************************)
(* State-machine model of src/server.js: the socket.io chess game session  *)
(* manager.  One action per event handler (sync-game-state, create-game,   *)
(* join-game, make-move, heartbeat, reconnect-to-game, offer-draw,         *)
(* accept-draw, resign-game, disconnect), one for the hourly cleanup       *)
(* interval, one for a new transport connection and one for the passage of *)
(* time (Date.now()).                                                      *)
(*                                                                         *)
(* JavaScript arrays are 0-based: IndexOf returns the 0-based index or -1  *)
(* exactly as Array.prototype.indexOf, and At(a, i) reads a[i].            *)
(*                                                                         *)
(* games is a plain object, so games[gameId] finds more than the sessions: *)
(* a gameId that names a property of Object.prototype (constructor,        *)
(* toString, ..., __proto__) yields that inherited value, which is truthy  *)
(* and has no players, playerInfo or gameState.  Lookup tells the cases    *)
(* apart and every handler follows the code from there: most of them       *)
(* dereference the missing field outside any try block, and the uncaught   *)
(* TypeError ends the process (crashed).  accept-draw does not throw: it   *)
(* writes lastActivity, finished and result onto what it found.  Written   *)
(* onto Object.prototype (gameId '__proto__') these become properties      *)
(* that every object inherits; the variable prototype holds them.  Written *)
(* onto one of the inherited functions they are read by nothing, and are   *)
(* not kept.  The file is an ES module, hence strict code: a write to a    *)
(* property of a primitive value (what games['finished'] yields once       *)
(* Object.prototype.finished is true) throws.                              *)
(*                                                                         *)
(* The finished and result fields of a session hold what game.finished and *)
(* game.result read, own or inherited; FALSE / "undefined" stand for a     *)
(* property that is neither.  keys is Object.keys(games): the session ids  *)
(* in the order of their insertion (an id made of digits only, which       *)
(* Object.keys lists first, is not among the ids drawn).                   *)
(*                                                                         *)
(* A socket id is handed out once: a socket connects, sends events while   *)
(* it is open, and is gone for good after its disconnect.  The membership  *)
(* of the socket.io rooms is state of the transport and is not modelled:   *)
(* an emission records the room it is addressed to.  Every event carries a *)
(* payload object: an event sent without one (the destructuring parameter  *)
(* of the handler throws) is not among the inputs.                         *)
(*                                                                         *)
(* chess.js is not part of src/.  The isCheck, isCheckmate and isDraw      *)
(* flags of the payloads are functions of the position and its history and *)
(* are left out of the recorded payloads; of the move object that          *)
(* move-made carries, color, from, to and piece are kept.  A move the      *)
(* engine refuses either returns null or throws, depending on the release; *)
(* the text of the exception, which the catch block forwards, is the       *)
(* engine's and "Invalid move" stands for it.                              *)
(*                                                                         *)
(* reconnect-to-game dereferences playerInfo[previousId] outside any try   *)
(* block; when that entry is missing the handler throws after it has       *)
(* replaced the slot, and the uncaught exception ends the process.         *)
(***************************************************************************)
EXTENDS Integers, Sequences, FiniteSets, TLC

VARIABLES games, keys, prototype, sockets, now, out, ev, crashed

vars == <<games, keys, prototype, sockets, now, out, ev, crashed>>

----------------------------------------------------------------------------
(* Bounds of the model and the input sets the events are drawn from.       *)

\* Largest value of the clock, in hours since the server started.
MaxNow == 25

\* The instants, in hours since the server started, at which events arrive.
Instants == {h \in {0, 1, 25, 26, 50} : h <= MaxNow}

\* Connection identities (socket.id): each is handed out once by the transport.
SocketIds == {"s1", "s2", "s3"}

\* The connection identities of the runs in which the clock advances.
ClockSocketIds == {"s1", "s2"}

\* Values Math.random().toString(36).substring(2, 8) can take.
GameIds == {"g1"}

\* gameId values a client can send that name no session: an inherited
\* function, Object.prototype itself, and a property accept-draw can put there.
InheritedKeys == {"constructor", "__proto__", "finished"}

\* The inherited name sent in the runs with two sessions.
CrashKeys == {"constructor"}

\* No gameId other than the random ids.
NoKeys == {}

\* The {from, to} payloads of make-move that clients send; g1-g3 is never legal.
MoveInputs == { <<"g1", "f3">>, <<"f3", "g1">>, <<"b8", "c6">>, <<"c6", "b8">>,
                <<"g1", "g3">> }

\* The make-move payloads of the runs in which the clock advances.
ClockMoveInputs == { <<"g1", "f3">>, <<"b8", "c6">>, <<"g1", "g3">> }

\* The connection identity of the runs that follow a session to its removal.
SweepSocketIds == {"s1"}

\* The session ids of the runs with two sessions side by side.
SessionGameIds == {"g1", "g2"}

\* The instants, in hours, to which the clock advances in those runs.
SessionInstants == {1}

----------------------------------------------------------------------------
(* Time.                                                                   *)

\* One hour in milliseconds, the unit of Date.now().
HourMs == 60 * 60 * 1000

\* The retention window of the cleanup interval.
RetentionMs == 24 * 60 * 60 * 1000

----------------------------------------------------------------------------
(* JavaScript helpers.                                                     *)

\* Array.prototype.indexOf: 0-based index of the first occurrence, or -1.
IndexOf(arr, x) ==
  IF \E i \in 1..Len(arr) : arr[i] = x
  THEN (CHOOSE i \in 1..Len(arr) : arr[i] = x /\ \A j \in 1..(i - 1) : arr[j] # x) - 1
  ELSE -1

\* arr[i] for a 0-based index i that is in range.
At(arr, i) == arr[i + 1]

\* obj[k] = v
Put(obj, k, v) == [x \in (DOMAIN obj) \cup {k} |-> IF x = k THEN v ELSE obj[x]]

\* delete obj[k]
Delete(obj, k) == [x \in (DOMAIN obj) \ {k} |-> obj[x]]

\* The empty object {}.
EmptyObject == [x \in {} |-> 0]

\* The names of the functions every object inherits from Object.prototype.
FunctionKeys ==
  { "constructor", "toString", "toLocaleString", "valueOf", "hasOwnProperty",
    "isPrototypeOf", "propertyIsEnumerable", "__defineGetter__",
    "__defineSetter__", "__lookupGetter__", "__lookupSetter__" }

\* Whether the property k that the handlers put on Object.prototype is truthy:
\* finished is true, result is 'draw', lastActivity is a time and 0 is falsy.
Truthy(k) == IF k = "lastActivity" THEN prototype[k] # 0 ELSE TRUE

\* What games[gameId] yields: a session (own property), Object.prototype
\* itself, an inherited function, a truthy primitive that a handler put on
\* Object.prototype, or undefined (or a falsy value).
Lookup(g) ==
  IF g \in DOMAIN games THEN "session"
  ELSE IF g = "__proto__" THEN "prototype"
  ELSE IF g \in FunctionKeys THEN "function"
  ELSE IF g \in DOMAIN prototype /\ Truthy(g) THEN "primitive"
  ELSE "undefined"

\* The value that obj.k reads when obj has no own property k.
Inherited(k, undefined) == IF k \in DOMAIN prototype THEN prototype[k] ELSE undefined

----------------------------------------------------------------------------
(* The rules engine (chess.js), restricted to the pieces MoveInputs can    *)
(* move: the white knight of g1 and the black knight of b8.  A position    *)
(* records where these two pieces stand and the side to move.              *)

\* new Chess()
NewChess == [wn |-> "g1", bn |-> "b8", stm |-> "w"]

KnightHop(sq) ==
  CASE sq = "g1" -> "f3"
    [] sq = "f3" -> "g1"
    [] sq = "b8" -> "c6"
    [] sq = "c6" -> "b8"
    [] OTHER -> "none"

\* Whether chess.js accepts {from, to, promotion: 'q'} in position pos.
IsLegal(pos, from, to) ==
  IF pos.stm = "w"
  THEN from = pos.wn /\ to = KnightHop(from)
  ELSE from = pos.bn /\ to = KnightHop(from)

\* The position after a legal move.
ChessMove(pos, from, to) ==
  IF pos.stm = "w"
  THEN [pos EXCEPT !.wn = to, !.stm = "b"]
  ELSE [pos EXCEPT !.bn = to, !.stm = "w"]

\* The move object gameState.move() returns for a legal move in position pos.
MoveObject(pos, from, to) == [color |-> pos.stm, from |-> from, to |-> to, piece |-> "n"]

\* gameState.fen(): the serialised placement followed by the side to move.
Fen(pos) == <<pos.wn, pos.bn, pos.stm>>

----------------------------------------------------------------------------
(* Emissions of the handler that ran last.                                 *)

\* socket.emit(event, data): to the sender alone.
Emit(s, event, data) == [kind |-> "emit", to |-> s, event |-> event, data |-> data]

\* io.to(room).emit(event, data): room is a gameId or a socket id.
To(room, event, data) == [kind |-> "to", to |-> room, event |-> event, data |-> data]

NoData == [none |-> TRUE]

\* The event that was handled last.
Event(op, s, g, p) == [op |-> op, sender |-> s, gameId |-> g, previousId |-> p]

----------------------------------------------------------------------------

Init ==
  /\ games = EmptyObject
  /\ keys = <<>>
  /\ prototype = EmptyObject
  /\ sockets = [s \in SocketIds |-> "new"]
  /\ now = 0
  /\ out = <<>>
  /\ ev = Event("start", "-", "-", "-")
  /\ crashed = FALSE

\* A handler of socket s can run: the process is up and s is connected.
Running(s) == ~crashed /\ sockets[s] = "open"

\* A TypeError that no try block catches: the handler has emitted nothing
\* and the process ends.
Thrown ==
  /\ out' = <<>>
  /\ crashed' = TRUE

\* io.on('connection'): the transport hands out a fresh socket id.
Connection(s) ==
  /\ ~crashed
  /\ sockets[s] = "new"
  /\ sockets' = [sockets EXCEPT ![s] = "open"]
  /\ out' = <<>>
  /\ ev' = Event("connection", s, "-", "-")
  /\ UNCHANGED <<games, keys, prototype, now, crashed>>

\* Date.now() advances to the instant of hour h.
Tick(h) ==
  /\ ~crashed
  /\ h * HourMs > now
  /\ now' = h * HourMs
  /\ out' = <<>>
  /\ ev' = Event("tick", "-", "-", "-")
  /\ UNCHANGED <<games, keys, prototype, sockets, crashed>>

\* The object create-game stores; it has no finished and no result of its own.
NewGame(s) ==
  [ gameState |-> NewChess,
    players |-> <<s>>,
    turn |-> "w",
    lastActivity |-> now,
    playerInfo |-> Put(EmptyObject, s, [color |-> "w", connected |-> TRUE, lastSeen |-> now]),
    finished |-> Inherited("finished", FALSE),
    result |-> Inherited("result", "undefined") ]

\* socket.on('create-game'); g is the random id drawn.
CreateGame(s, g) ==
  /\ Running(s)
  /\ games' = Put(games, g, NewGame(s))
  /\ keys' = IF g \in DOMAIN games THEN keys ELSE Append(keys, g)
  /\ out' = <<Emit(s, "game-created", [gameId |-> g, color |-> "w"])>>
  /\ ev' = Event("create-game", s, g, "-")
  /\ UNCHANGED <<prototype, sockets, now, crashed>>

\* A guard that lets a third player in.
JoinAllowed_UpToTwo(game) == Len(game.players) <= 2

\* The guard of join-game on an existing session.
JoinAllowed(game) == Len(game.players) < 2

\* The session after s joined it.
Joined(game, s) ==
  [game EXCEPT !.players = Append(@, s),
               !.playerInfo = Put(@, s, [color |-> "b", connected |-> TRUE, lastSeen |-> now]),
               !.lastActivity = now]

\* socket.on('join-game').  On an inherited value .players is undefined and
\* reading its length throws.
JoinGame(s, g) ==
  /\ Running(s)
  /\ ev' = Event("join-game", s, g, "-")
  /\ IF Lookup(g) = "session"
     THEN /\ IF JoinAllowed(games[g])
             THEN /\ games' = [games EXCEPT ![g] = Joined(@, s)]
                  /\ out' = << Emit(s, "game-joined", [gameId |-> g, color |-> "b"]),
                               To(g, "game-start", [fen |-> Fen(Joined(games[g], s).gameState),
                                                    turn |-> Joined(games[g], s).turn]) >>
             ELSE /\ out' = <<Emit(s, "error", [message |-> "Game not found or full"])>>
                  /\ UNCHANGED games
          /\ UNCHANGED crashed
     ELSE IF Lookup(g) = "undefined"
          THEN /\ out' = <<Emit(s, "error", [message |-> "Game not found or full"])>>
               /\ UNCHANGED <<games, crashed>>
          ELSE /\ Thrown
               /\ UNCHANGED games
  /\ UNCHANGED <<keys, prototype, sockets, now>>

\* The session after a sync-game-state.
Synced(game) == [game EXCEPT !.lastActivity = now]

\* socket.on('sync-game-state').  On an inherited value the write to
\* lastActivity comes first (it lands on Object.prototype for '__proto__',
\* and throws on a primitive); gameState.fen() then throws while the payload
\* is built.
SyncGameState(s, g) ==
  /\ Running(s)
  /\ ev' = Event("sync-game-state", s, g, "-")
  /\ IF Lookup(g) = "session"
     THEN /\ games' = [games EXCEPT ![g] = Synced(@)]
          /\ out' = <<Emit(s, "game-state-synced", [fen |-> Fen(games[g].gameState),
                                                    turn |-> games[g].turn])>>
          /\ UNCHANGED <<prototype, crashed>>
     ELSE IF Lookup(g) = "undefined"
          THEN /\ out' = <<>>
               /\ UNCHANGED <<games, prototype, crashed>>
          ELSE /\ Thrown
               /\ prototype' = IF Lookup(g) = "prototype"
                               THEN Put(prototype, "lastActivity", now)
                               ELSE prototype
               /\ UNCHANGED games
  /\ UNCHANGED <<keys, sockets, now>>

\* Slot colours the wrong way round.
PlayerColor_Swapped(game, s) == IF IndexOf(game.players, s) = 0 THEN "b" ELSE "w"

\* const playerColor = playerIndex === 0 ? 'w' : 'b'
PlayerColor(game, s) == IF IndexOf(game.players, s) = 0 THEN "w" ELSE "b"

\* game.turn === 'w' ? 'b' : 'w'
Flip(turn) == IF turn = "w" THEN "b" ELSE "w"

\* The your-turn notification after an accepted move (game is the updated session).
YourTurn(game) ==
  LET nextPlayerIndex == IF game.turn = "w" THEN 0 ELSE 1 IN
  IF /\ Len(game.players) > nextPlayerIndex
     /\ At(game.players, nextPlayerIndex) \in DOMAIN game.playerInfo
     /\ game.playerInfo[At(game.players, nextPlayerIndex)].connected
  THEN <<To(At(game.players, nextPlayerIndex), "your-turn", NoData)>>
  ELSE <<>>

\* An accepted move that forgets to hand the turn over.
MoveApplied_NoFlip(game, from, to) ==
  [game EXCEPT !.gameState = ChessMove(@, from, to),
               !.lastActivity = now]

\* The session after game.gameState.move() returned a move.
MoveApplied(game, from, to) ==
  [game EXCEPT !.gameState = ChessMove(@, from, to),
               !.turn = Flip(@),
               !.lastActivity = now]

\* socket.on('make-move').  A move the rules engine refuses either returns
\* null (nothing is emitted) or throws (the catch block emits the error),
\* depending on the chess.js release that is installed.  On an inherited
\* value players.indexOf throws inside the try block and the catch block
\* forwards the message of that TypeError.
MakeMove(s, g, from, to) ==
  /\ Running(s)
  /\ ev' = Event("make-move", s, g, "-")
  /\ IF Lookup(g) = "undefined"
     THEN /\ out' = <<>>
          /\ UNCHANGED games
     ELSE IF Lookup(g) # "session"
     THEN /\ out' = <<Emit(s, "error",
                           [message |-> "Cannot read properties of undefined (reading 'indexOf')"])>>
          /\ UNCHANGED games
     ELSE LET game == games[g] IN
          IF game.turn # PlayerColor(game, s)
          THEN /\ out' = <<Emit(s, "error", [message |-> "Not your turn"])>>
               /\ UNCHANGED games
          ELSE IF IsLegal(game.gameState, from, to)
               THEN LET moved == MoveApplied(game, from, to) IN
                    /\ games' = [games EXCEPT ![g] = moved]
                    /\ out' = <<To(g, "move-made", [from |-> from, to |-> to,
                                                     fen |-> Fen(moved.gameState),
                                                     turn |-> moved.turn,
                                                     move |-> MoveObject(game.gameState, from, to)])>>
                              \o YourTurn(moved)
               ELSE /\ out' \in { <<>>, <<Emit(s, "error", [message |-> "Invalid move"])>> }
                    /\ UNCHANGED games
  /\ UNCHANGED <<keys, prototype, sockets, now, crashed>>

\* socket.on('heartbeat').  On an inherited value .playerInfo is undefined
\* and indexing it throws.
Heartbeat(s, g) ==
  /\ Running(s)
  /\ ev' = Event("heartbeat", s, g, "-")
  /\ IF Lookup(g) = "session"
     THEN /\ out' = <<>>
          /\ IF s \in DOMAIN games[g].playerInfo
             THEN games' = [games EXCEPT ![g].playerInfo[s] =
                               [@ EXCEPT !.lastSeen = now, !.connected = TRUE]]
             ELSE UNCHANGED games
          /\ UNCHANGED crashed
     ELSE IF Lookup(g) = "undefined"
          THEN /\ out' = <<>>
               /\ UNCHANGED <<games, crashed>>
          ELSE /\ Thrown
               /\ UNCHANGED games
  /\ UNCHANGED <<keys, prototype, sockets, now>>

\* Whether reconnect-to-game finds previousId among the players.
IsKnownPlayer(game, previousId) == IndexOf(game.players, previousId) # -1

\* The notification to the slot opposite to playerIndex, if that slot is occupied.
NotifyOpponent(game, playerIndex, event) ==
  LET opponentIndex == IF playerIndex = 0 THEN 1 ELSE 0 IN
  IF Len(game.players) > opponentIndex
  THEN <<To(At(game.players, opponentIndex), event, NoData)>>
  ELSE <<>>

\* The session after a reconnect whose previousId has a playerInfo entry:
\* the slot is handed over, the entry is moved and then deleted under previousId.
Reconnected(game, s, previousId) ==
  LET playerIndex == IndexOf(game.players, previousId)
      info == [game.playerInfo[previousId] EXCEPT !.connected = TRUE, !.lastSeen = now]
  IN [game EXCEPT !.players = [@ EXCEPT ![playerIndex + 1] = s],
                  !.playerInfo = Delete(Put(@, s, info), previousId)]

\* The session at the moment reconnect-to-game throws: playerInfo[previousId]
\* is undefined, so playerInfo[socket.id] is set to undefined and the write
\* to its .connected raises a TypeError outside any try block.
ReconnectThrown(game, s, previousId) ==
  LET playerIndex == IndexOf(game.players, previousId)
  IN [game EXCEPT !.players = [@ EXCEPT ![playerIndex + 1] = s],
                  !.playerInfo = Delete(@, s)]

\* socket.on('reconnect-to-game').  On an inherited value players.indexOf
\* throws.
ReconnectToGame(s, g, previousId) ==
  /\ Running(s)
  /\ ev' = Event("reconnect-to-game", s, g, previousId)
  /\ IF Lookup(g) = "undefined"
     THEN /\ out' = <<Emit(s, "error", [message |-> "Game not found"])>>
          /\ UNCHANGED <<games, crashed>>
     ELSE IF Lookup(g) # "session"
     THEN /\ Thrown
          /\ UNCHANGED games
     ELSE LET game == games[g]
              playerIndex == IndexOf(game.players, previousId)
          IN IF IsKnownPlayer(game, previousId)
             THEN IF previousId \in DOMAIN game.playerInfo
                  THEN LET after == Reconnected(game, s, previousId) IN
                       /\ games' = [games EXCEPT ![g] = after]
                       /\ out' = <<Emit(s, "reconnected-to-game",
                                        [gameId |-> g,
                                         color |-> IF playerIndex = 0 THEN "w" ELSE "b",
                                         fen |-> Fen(after.gameState),
                                         turn |-> after.turn])>>
                                 \o NotifyOpponent(after, playerIndex, "opponent-reconnected")
                       /\ UNCHANGED crashed
                  ELSE /\ games' = [games EXCEPT ![g] = ReconnectThrown(game, s, previousId)]
                       /\ Thrown
             ELSE /\ out' = <<Emit(s, "error",
                                   [message |-> "You are not a player in this game"])>>
                  /\ UNCHANGED <<games, crashed>>
  /\ UNCHANGED <<keys, prototype, sockets, now>>

\* socket.on('offer-draw').  On an inherited value players.indexOf throws.
OfferDraw(s, g) ==
  /\ Running(s)
  /\ ev' = Event("offer-draw", s, g, "-")
  /\ IF Lookup(g) = "undefined"
     THEN /\ out' = <<>>
          /\ UNCHANGED <<games, crashed>>
     ELSE IF Lookup(g) # "session"
     THEN /\ Thrown
          /\ UNCHANGED games
     ELSE LET game == games[g]
              playerIndex == IndexOf(game.players, s)
              opponentIndex == IF playerIndex = 0 THEN 1 ELSE 0
          IN /\ IF Len(game.players) > opponentIndex
                THEN /\ games' = [games EXCEPT ![g].lastActivity = now]
                     /\ out' = NotifyOpponent(game, playerIndex, "draw-offered")
                ELSE /\ out' = <<>>
                     /\ UNCHANGED games
             /\ UNCHANGED crashed
  /\ UNCHANGED <<keys, prototype, sockets, now>>

\* The session after accept-draw.
DrawAccepted(game) ==
  [game EXCEPT !.lastActivity = now, !.finished = TRUE, !.result = "draw"]

\* Object.prototype after accept-draw wrote onto it.
DrawAcceptedPrototype ==
  Put(Put(Put(prototype, "lastActivity", now), "finished", TRUE), "result", "draw")

\* A session once Object.prototype has finished and result: it reads them
\* unless it has its own, which an earlier accept-draw or resign-game gave it
\* together.
Inheriting(game) ==
  IF game.finished THEN game ELSE [game EXCEPT !.finished = TRUE, !.result = "draw"]

\* socket.on('accept-draw').  No field of what games[gameId] yields is read:
\* an inherited function or Object.prototype takes the three writes, and the
\* broadcast goes to the room named gameId; the first write throws on a
\* primitive.
AcceptDraw(s, g) ==
  /\ Running(s)
  /\ ev' = Event("accept-draw", s, g, "-")
  /\ CASE Lookup(g) = "undefined" ->
            /\ out' = <<>>
            /\ UNCHANGED <<games, prototype, crashed>>
       [] Lookup(g) = "session" ->
            /\ games' = [games EXCEPT ![g] = DrawAccepted(@)]
            /\ out' = <<To(g, "draw-accepted", NoData)>>
            /\ UNCHANGED <<prototype, crashed>>
       [] Lookup(g) = "function" ->
            /\ out' = <<To(g, "draw-accepted", NoData)>>
            /\ UNCHANGED <<games, prototype, crashed>>
       [] Lookup(g) = "prototype" ->
            /\ prototype' = DrawAcceptedPrototype
            /\ games' = [h \in DOMAIN games |-> Inheriting(games[h])]
            /\ out' = <<To(g, "draw-accepted", NoData)>>
            /\ UNCHANGED crashed
       [] Lookup(g) = "primitive" ->
            /\ Thrown
            /\ UNCHANGED <<games, prototype>>
  /\ UNCHANGED <<keys, sockets, now>>

\* A winner that is the resigning side itself.
Winner_Resigner(game, s) == PlayerColor(game, s)

\* const winner = playerColor === 'w' ? 'b' : 'w'
Winner(game, s) == IF PlayerColor(game, s) = "w" THEN "b" ELSE "w"

\* The session after resign-game sent by s.
Resigned(game, s) ==
  [game EXCEPT !.lastActivity = now, !.finished = TRUE, !.result = Winner(game, s)]

\* socket.on('resign-game').  On an inherited value players.indexOf throws,
\* before anything is written.
ResignGame(s, g) ==
  /\ Running(s)
  /\ ev' = Event("resign-game", s, g, "-")
  /\ IF Lookup(g) = "undefined"
     THEN /\ out' = <<>>
          /\ UNCHANGED <<games, crashed>>
     ELSE IF Lookup(g) # "session"
     THEN /\ Thrown
          /\ UNCHANGED games
     ELSE /\ games' = [games EXCEPT ![g] = Resigned(@, s)]
          /\ out' = <<To(g, "player-resigned", [winner |-> Winner(games[g], s)])>>
          /\ UNCHANGED crashed
  /\ UNCHANGED <<keys, prototype, sockets, now>>

\* A disconnect that takes the identity out of the players.
Disconnected_Leaving(game, s) ==
  IF IndexOf(game.players, s) # -1
  THEN [game EXCEPT !.players = SelectSeq(@, LAMBDA x : x # s),
                    !.playerInfo = Delete(@, s)]
  ELSE game

\* One session as the disconnect handler leaves it.
Disconnected(game, s) ==
  IF IndexOf(game.players, s) # -1 /\ s \in DOMAIN game.playerInfo
  THEN [game EXCEPT !.playerInfo[s] = [@ EXCEPT !.connected = FALSE, !.lastSeen = now]]
  ELSE game

\* The opponent-disconnected notifications of the sessions keys[k..], in the
\* order in which Object.keys(games) is walked.
RECURSIVE DisconnectNotices(_, _)
DisconnectNotices(s, k) ==
  IF k > Len(keys) THEN <<>>
  ELSE LET g == keys[k] IN
       (IF IndexOf(games[g].players, s) # -1
        THEN NotifyOpponent(games[g], IndexOf(games[g].players, s), "opponent-disconnected")
        ELSE <<>>)
       \o DisconnectNotices(s, k + 1)

\* socket.on('disconnect')
Disconnect(s) ==
  /\ Running(s)
  /\ ev' = Event("disconnect", s, "-", "-")
  /\ sockets' = [sockets EXCEPT ![s] = "closed"]
  /\ games' = [g \in DOMAIN games |-> Disconnected(games[g], s)]
  /\ out' = DisconnectNotices(s, 1)
  /\ UNCHANGED <<keys, prototype, now, crashed>>

\* A retention test that never fires.
Expired_Never(game, t) == FALSE

\* A retention test that already fires at exactly 24 hours.
Expired_AtWindow(game, t) == t - game.lastActivity >= RetentionMs

\* The test of the cleanup interval on one session.
Expired(game, t) == t - game.lastActivity > RetentionMs

\* The setInterval callback: one run of the cleanup.
Cleanup ==
  /\ ~crashed
  /\ ev' = Event("cleanup", "-", "-", "-")
  /\ games' = [g \in {h \in DOMAIN games : ~Expired(games[h], now)} |-> games[g]]
  /\ keys' = SelectSeq(keys, LAMBDA h : ~Expired(games[h], now))
  /\ out' = <<>>
  /\ UNCHANGED <<prototype, sockets, now, crashed>>

\* The events of the sockets S with the random ids G, the gameId values
\* G \cup K in the payloads and the move payloads M.
Events(S, G, K, M) ==
  \/ \E s \in S : Connection(s)
  \/ \E s \in S, g \in G : CreateGame(s, g)
  \/ \E s \in S, g \in G \cup K : JoinGame(s, g)
  \/ \E s \in S, g \in G \cup K : SyncGameState(s, g)
  \/ \E s \in S, g \in G \cup K, m \in M : MakeMove(s, g, m[1], m[2])
  \/ \E s \in S, g \in G \cup K : Heartbeat(s, g)
  \/ \E s \in S, g \in G \cup K, p \in S : ReconnectToGame(s, g, p)
  \/ \E s \in S, g \in G \cup K : OfferDraw(s, g)
  \/ \E s \in S, g \in G \cup K : AcceptDraw(s, g)
  \/ \E s \in S, g \in G \cup K : ResignGame(s, g)
  \/ \E s \in S : Disconnect(s)

\* Three connections playing while the clock stands still.
Next == Events(SocketIds, GameIds, NoKeys, MoveInputs)

Spec == Init /\ [][Next]_vars

\* Two connections, the clock and the cleanup interval.
NextClock ==
  \/ Events(ClockSocketIds, GameIds, NoKeys, ClockMoveInputs)
  \/ \E h \in Instants : Tick(h)
  \/ Cleanup

SpecClock == Init /\ [][NextClock]_vars

\* One connection, the clock and the cleanup interval.
NextSweep ==
  \/ Events(SweepSocketIds, GameIds, InheritedKeys, ClockMoveInputs)
  \/ \E h \in Instants : Tick(h)
  \/ Cleanup

\* The clock keeps advancing while it can and the interval callback keeps
\* being run: setInterval re-arms itself for as long as the process lives.
SpecSweep ==
  /\ Init /\ [][NextSweep]_vars
  /\ WF_vars(\E h \in Instants : Tick(h))
  /\ WF_vars(Cleanup)

\* Two connections coming, joining, reconnecting and going on two sessions.
NextSessions ==
  \/ \E s \in ClockSocketIds : Connection(s)
  \/ \E s \in ClockSocketIds, g \in SessionGameIds : CreateGame(s, g)
  \/ \E s \in ClockSocketIds, g \in SessionGameIds \cup CrashKeys : JoinGame(s, g)
  \/ \E s \in ClockSocketIds, g \in SessionGameIds \cup CrashKeys, p \in ClockSocketIds :
        ReconnectToGame(s, g, p)
  \/ \E s \in ClockSocketIds : Disconnect(s)
  \/ \E h \in SessionInstants : Tick(h)

SpecSessions == Init /\ [][NextSessions]_vars

\* Two connections that also send the names every object inherits, while
\* the clock stands still.
NextKeys == Events(ClockSocketIds, GameIds, InheritedKeys, ClockMoveInputs)

SpecKeys == Init /\ [][NextKeys]_vars

----------------------------------------------------------------------------
(* Vocabulary of the properties.                                           *)

\* The handler that ran last accepted a move: it broadcast move-made.
MoveMade(o) == Len(o) > 0 /\ o[1].event = "move-made"

\* The step handles event op addressed to session g.
Handles(op, g) == ev'.op = op /\ ev'.gameId = g

\* Identity s occupies slot i (0 or 1) of the session.
InSlot(game, i, s) == Len(game.players) > i /\ At(game.players, i) = s

\* The slot of the side to move.
TurnSlot(game) == IF game.turn = "w" THEN 0 ELSE 1

\* The gameId values of the payloads: ids of sessions and inherited names.
ClientGameIds == GameIds \cup InheritedKeys

\* The step changes nothing the server keeps, and the process stays up.
NothingChanges ==
  /\ games' = games
  /\ keys' = keys
  /\ prototype' = prototype
  /\ crashed' = crashed

----------------------------------------------------------------------------
(* C1.  A make-move is accepted (move-made broadcast, position changed)    *)
(* only if its sender is the identity in the slot of the side to move      *)
(* (players[0] on White's turn, players[1] on Black's), and right after an *)
(* accepted move the turn is the opposite colour; senders without a slot   *)
(* and one-player sessions included.                                       *)
C1_MoveOnlyByTurnSlot ==
  [][\A g \in GameIds :
       (Handles("make-move", g) /\ g \in DOMAIN games /\ MoveMade(out'))
       => /\ InSlot(games[g], TurnSlot(games[g]), ev'.sender)
          /\ games'[g].turn = Flip(games[g].turn)]_vars

(* C2.  The players of every session number at most 2; a join-game on a    *)
(* session with two players adds no third.                                 *)
C2_AtMostTwoPlayers ==
  \A g \in DOMAIN games : Len(games[g].players) <= 2

\* A join-game on a full session has just been refused.
C2_Witness ==
  /\ ev.op = "join-game"
  /\ ev.gameId \in DOMAIN games
  /\ Len(games[ev.gameId].players) = 2
  /\ out = <<Emit(ev.sender, "error", [message |-> "Game not found or full"])>>

(* C3.  Once accept-draw or resign-game has marked a session finished, a   *)
(* later accept-draw or resign-game on it (from any sender) leaves result  *)
(* at the value the first one set and finished true.                       *)
C3_ResultSetOnce ==
  [][\A g \in GameIds :
       ( /\ g \in DOMAIN games
         /\ games[g].finished
         /\ (Handles("accept-draw", g) \/ Handles("resign-game", g)) )
       => /\ games'[g].finished
          /\ games'[g].result = games[g].result]_vars

(* C4.  The turn of a session flips exactly when a make-move is accepted,  *)
(* and the position changes with it; every other event on the session      *)
(* (join, sync, heartbeat, reconnect, offer-draw, accept-draw, resign,     *)
(* disconnect, a refused or illegal move, the clock, the cleanup run)      *)
(* leaves turn and position as they were.                                  *)
C4_TurnFlipsOnlyOnMove ==
  [][\A g \in GameIds :
       (g \in DOMAIN games /\ g \in DOMAIN games' /\ ~Handles("create-game", g))
       => IF Handles("make-move", g) /\ MoveMade(out')
          THEN /\ games'[g].turn = Flip(games[g].turn)
               /\ games'[g].gameState # games[g].gameState
          ELSE /\ games'[g].turn = games[g].turn
               /\ games'[g].gameState = games[g].gameState]_vars

\* A reconnect has just been served on a session whose turn had flipped to Black.
C4_Witness ==
  /\ ev.op = "reconnect-to-game"
  /\ Len(out) > 0 /\ out[1].event = "reconnected-to-game"
  /\ ev.gameId \in DOMAIN games
  /\ games[ev.gameId].turn = "b"
  /\ out[1].data.turn = "b"

(* C5.  A cleanup run removes a session if and only if now - lastActivity  *)
(* is strictly greater than 24 hours at that run, finished or not; a       *)
(* session idle for exactly 24 hours or less survives the run.             *)
C5_CleanupRemovesIffExpired ==
  [][ev'.op = "cleanup"
     => \A g \in DOMAIN games :
          (g \notin DOMAIN games') <=> (now - games[g].lastActivity > 24 * HourMs)]_vars

\* A cleanup run has just retained a finished session idle for exactly 24 hours.
C5_Witness ==
  /\ ev.op = "cleanup"
  /\ \E g \in DOMAIN games :
       /\ now - games[g].lastActivity = 24 * HourMs
       /\ games[g].finished

(* C6.  A reconnect-to-game whose previousId is not among the session's    *)
(* players, or whose gameId names no session, changes nothing (players,    *)
(* playerInfo and every other field of every session), and its only        *)
(* emission is an error to the requester.                                  *)
C6_FailedReconnectChangesNothing ==
  [][\A g \in ClientGameIds :
       ( /\ Handles("reconnect-to-game", g)
         /\ \/ g \notin DOMAIN games
            \/ \A i \in 1..Len(games[g].players) : games[g].players[i] # ev'.previousId )
       => /\ NothingChanges
          /\ Len(out') = 1
          /\ out'[1].kind = "emit" /\ out'[1].to = ev'.sender /\ out'[1].event = "error"]_vars

(* C7.  In a two-player session, once the identity of slot i has           *)
(* disconnected and a new identity reconnects naming it as previousId, the *)
(* new identity holds slot i, the other slot is unchanged, the             *)
(* reconnected-to-game reply carries the colour of slot i with the current *)
(* position and turn, and the identity of the other slot is sent           *)
(* opponent-reconnected.                                                   *)
C7_ReconnectTakesTheSlot ==
  [][\A g \in GameIds, i \in {0, 1} :
       ( /\ Handles("reconnect-to-game", g)
         /\ g \in DOMAIN games
         /\ Len(games[g].players) = 2
         /\ At(games[g].players, i) = ev'.previousId
         /\ sockets[ev'.previousId] = "closed"
         /\ ev'.sender # ev'.previousId )
       => /\ At(games'[g].players, i) = ev'.sender
          /\ At(games'[g].players, 1 - i) = At(games[g].players, 1 - i)
          /\ out' = << Emit(ev'.sender, "reconnected-to-game",
                            [gameId |-> g,
                             color |-> IF i = 0 THEN "w" ELSE "b",
                             fen |-> Fen(games[g].gameState),
                             turn |-> games[g].turn]),
                       To(At(games[g].players, 1 - i), "opponent-reconnected", NoData) >>]_vars

(* C8.  A make-move from a sender whose slot colour differs from the turn  *)
(* (the identity of slot 0 on Black's turn, the identity of slot 1 on      *)
(* White's turn) is refused: the only emission is the error 'Not your      *)
(* turn' to the sender, and the session is unchanged.                      *)
C8_OutOfTurnMoveRefused ==
  [][\A g \in GameIds :
       ( /\ Handles("make-move", g)
         /\ g \in DOMAIN games
         /\ \/ (InSlot(games[g], 0, ev'.sender) /\ games[g].turn = "b")
            \/ (InSlot(games[g], 1, ev'.sender) /\ ~InSlot(games[g], 0, ev'.sender)
                /\ games[g].turn = "w") )
       => /\ games' = games
          /\ out' = <<Emit(ev'.sender, "error", [message |-> "Not your turn"])>>]_vars

\* After create, join and one accepted White move, a second White move has
\* just been refused at a later instant; lastActivity is still that of the move.
C8_Witness ==
  /\ ev.op = "make-move"
  /\ ev.gameId \in DOMAIN games
  /\ LET game == games[ev.gameId] IN
       /\ Len(game.players) = 2
       /\ game.players[1] = ev.sender /\ game.players[2] # ev.sender
       /\ game.turn = "b"
       /\ game.gameState = [NewChess EXCEPT !.wn = "f3", !.stm = "b"]
       /\ game.lastActivity < now
  /\ out = <<Emit(ev.sender, "error", [message |-> "Not your turn"])>>

(* C9.  A join-game whose gameId names no session, or a session with two   *)
(* players, emits an error to the requester only and leaves every session  *)
(* untouched; a successful join appends the requester as slot 1 (Black),   *)
(* emits game-joined with colour 'b' to the requester and then game-start  *)
(* with the current position and turn to the group.                        *)
C9_JoinEffects ==
  [][\A g \in ClientGameIds :
       Handles("join-game", g)
       => IF g \in DOMAIN games /\ Len(games[g].players) # 2
          THEN /\ games'[g].players = Append(games[g].players, ev'.sender)
               /\ InSlot(games'[g], 1, ev'.sender)
               /\ games'[g].playerInfo[ev'.sender].color = "b"
               /\ out' = << Emit(ev'.sender, "game-joined", [gameId |-> g, color |-> "b"]),
                            To(g, "game-start", [fen |-> Fen(games[g].gameState),
                                                 turn |-> games[g].turn]) >>
          ELSE /\ NothingChanges
               /\ out' = <<Emit(ev'.sender, "error",
                                [message |-> "Game not found or full"])>>]_vars

(* C10.  offer-draw, accept-draw and resign-game on an existing session    *)
(* each set its lastActivity to the current time, an offer-draw sent while *)
(* the opponent slot is empty included; when gameId names no session they  *)
(* are ignored in silence: nothing changes and nothing is emitted.         *)
C10_DrawEventsTouchActivity ==
  [][\A g \in ClientGameIds :
       (Handles("offer-draw", g) \/ Handles("accept-draw", g) \/ Handles("resign-game", g))
       => IF g \in DOMAIN games
          THEN games'[g].lastActivity = now
          ELSE NothingChanges /\ out' = <<>>]_vars

(* C11.  A heartbeat on an existing session from an identity that holds    *)
(* one of its slots refreshes that player's lastSeen and sets connected to *)
(* true, whatever joins, disconnects and reconnects came before; a         *)
(* heartbeat emits nothing and changes nothing else of the session         *)
(* (players, turn, position, lastActivity).                                *)
C11_HeartbeatRefreshesPlayer ==
  [][\A g \in GameIds :
       (Handles("heartbeat", g) /\ g \in DOMAIN games)
       => /\ out' = <<>>
          /\ g \in DOMAIN games'
          /\ games'[g].players = games[g].players
          /\ games'[g].turn = games[g].turn
          /\ games'[g].gameState = games[g].gameState
          /\ games'[g].lastActivity = games[g].lastActivity
          /\ (\E i \in {0, 1} : InSlot(games[g], i, ev'.sender))
             => /\ ev'.sender \in DOMAIN games'[g].playerInfo
                /\ games'[g].playerInfo[ev'.sender].connected
                /\ games'[g].playerInfo[ev'.sender].lastSeen = now]_vars

(* C12.  A disconnect removes no player from any session and deletes no    *)
(* session.  In a session where the identity holds a slot the only change  *)
(* is to its own playerInfo entry (connected false, lastSeen refreshed),   *)
(* and opponent-disconnected goes to the identity of the slot opposite to  *)
(* its slot if that slot is occupied; a session where it holds no slot is  *)
(* unchanged and causes no notification.  The notifications follow the     *)
(* order in which the sessions were created.                               *)
C12_DisconnectKeepsPlayers ==
  [][ev'.op = "disconnect"
     => LET s == ev'.sender
            Holds(g) == \E i \in {0, 1} : InSlot(games[g], i, s)
            Notice(g) ==
              IF ~Holds(g) THEN <<>>
              ELSE IF InSlot(games[g], 0, s)
                   THEN IF Len(games[g].players) = 2
                        THEN <<To(games[g].players[2], "opponent-disconnected", NoData)>>
                        ELSE <<>>
                   ELSE <<To(games[g].players[1], "opponent-disconnected", NoData)>>
        IN /\ DOMAIN games' = DOMAIN games
           /\ \A g \in DOMAIN games :
                /\ games'[g].players = games[g].players
                /\ [games'[g] EXCEPT !.playerInfo = games[g].playerInfo] = games[g]
                /\ DOMAIN games'[g].playerInfo = DOMAIN games[g].playerInfo
                /\ \A k \in DOMAIN games[g].playerInfo :
                     IF k = s /\ Holds(g)
                     THEN games'[g].playerInfo[k] =
                            [games[g].playerInfo[k] EXCEPT !.connected = FALSE,
                                                           !.lastSeen = now]
                     ELSE games'[g].playerInfo[k] = games[g].playerInfo[k]
           /\ out' = (IF Len(keys) >= 1 THEN Notice(keys[1]) ELSE <<>>)
                     \o (IF Len(keys) >= 2 THEN Notice(keys[2]) ELSE <<>>)]_vars

\* An identity that held slot 1 of one session and no slot of the other has
\* just disconnected, after the clock had advanced: only the first session
\* records it, and only that session's slot 0 is notified.
C12_Witness ==
  /\ ev.op = "disconnect"
  /\ DOMAIN games = {"g1", "g2"}
  /\ \E a \in {"g1", "g2"}, b \in {"g1", "g2"} :
       /\ a # b
       /\ Len(games[a].players) = 2
       /\ games[a].players[2] = ev.sender /\ games[a].players[1] # ev.sender
       /\ ev.sender \in DOMAIN games[a].playerInfo
       /\ ~games[a].playerInfo[ev.sender].connected
       /\ games[a].playerInfo[ev.sender].lastSeen = now
       /\ games[a].lastActivity < now
       /\ games[b].players = <<games[a].players[1]>>
       /\ out = <<To(games[a].players[1], "opponent-disconnected", NoData)>>

\* The recipients of the your-turn notifications among the emissions o.
YourTurnRecipients(o) == {o[k].to : k \in {j \in 1..Len(o) : o[j].event = "your-turn"}}

(* C13.  your-turn is emitted only by an accepted move, after its          *)
(* move-made broadcast, and only to the identity that then holds the slot  *)
(* of the side to move, provided its playerInfo entry says connected; it   *)
(* is never sent to a disconnected player, to an identity that a reconnect *)
(* superseded, or to the mover.                                            *)
C13_YourTurnToNextPlayerOnly ==
  [][\A r \in YourTurnRecipients(out') :
       /\ ev'.op = "make-move"
       /\ MoveMade(out')
       /\ Len(out') = 2 /\ out'[2] = To(r, "your-turn", NoData)
       /\ ev'.gameId \in DOMAIN games'
       /\ LET game == games'[ev'.gameId] IN
            /\ InSlot(game, TurnSlot(game), r)
            /\ r \in DOMAIN game.playerInfo
            /\ game.playerInfo[r].connected
       /\ r # ev'.sender]_vars

(* C14.  A sync-game-state on an existing session sends the current        *)
(* position and turn to the requester alone, sets lastActivity to the      *)
(* current time and leaves turn, players, playerInfo, position, finished   *)
(* and result unchanged; when gameId names no session it changes and sends *)
(* nothing.                                                                *)
C14_SyncReadsOnly ==
  [][\A g \in ClientGameIds :
       Handles("sync-game-state", g)
       => IF g \in DOMAIN games
          THEN /\ DOMAIN games' = DOMAIN games
               /\ games'[g].lastActivity = now
               /\ games'[g].turn = games[g].turn
               /\ games'[g].players = games[g].players
               /\ games'[g].playerInfo = games[g].playerInfo
               /\ games'[g].gameState = games[g].gameState
               /\ games'[g].finished = games[g].finished
               /\ games'[g].result = games[g].result
               /\ out' = <<Emit(ev'.sender, "game-state-synced",
                                [fen |-> Fen(games[g].gameState), turn |-> games[g].turn])>>
          ELSE NothingChanges /\ out' = <<>>]_vars

(* C15.  A resign-game from an identity that holds a slot sets finished to *)
(* true and sets result, and the winner of the player-resigned broadcast,  *)
(* to the colour opposite to the sender's slot: 'b' when its slot is 0,    *)
(* 'w' when its slot is 1.  The sender's slot is its first index in        *)
(* players.                                                                *)
C15_ResignGivesOpponentTheWin ==
  [][\A g \in GameIds, i \in {0, 1} :
       ( /\ Handles("resign-game", g)
         /\ g \in DOMAIN games
         /\ InSlot(games[g], i, ev'.sender)
         /\ \A j \in 0..(i - 1) : ~InSlot(games[g], j, ev'.sender) )
       => LET winner == IF i = 0 THEN "b" ELSE "w" IN
            /\ games'[g].finished
            /\ games'[g].result = winner
            /\ out' = <<To(g, "player-resigned", [winner |-> winner])>>]_vars

\* The holder of slot 1 has just resigned: White is recorded and announced
\* as the winner.
C15_Witness ==
  /\ ev.op = "resign-game"
  /\ ev.gameId \in DOMAIN games
  /\ LET game == games[ev.gameId] IN
       /\ Len(game.players) = 2
       /\ game.players[2] = ev.sender /\ game.players[1] # ev.sender
       /\ game.finished
       /\ game.result = "w"
  /\ out = <<To(ev.gameId, "player-resigned", [winner |-> "w"])>>

(* C16.  With the clock advancing and the cleanup interval running, every  *)
(* session, finished or not, whose lastActivity is no longer updated is    *)
(* eventually removed from the session table, unless the process has ended *)
(* first; and no step other than a cleanup run removes a session.  The     *)
(* sessions concerned are those whose retention window ends before the     *)
(* last instant of the clock.                                              *)
C16_IdleSessionsAreSwept ==
  /\ \A g \in GameIds, h \in Instants :
       ( /\ g \in DOMAIN games
         /\ games[g].lastActivity = h * HourMs
         /\ (h + 24) * HourMs < MaxNow * HourMs )
       ~> ( \/ g \notin DOMAIN games
            \/ games[g].lastActivity # h * HourMs
            \/ crashed )
  /\ [][(DOMAIN games \subseteq DOMAIN games') \/ ev'.op = "cleanup"]_vars

\* The clock has just passed the end of the retention window of a finished
\* session that is still in the table: the next cleanup run removes it.
C16_Witness ==
  /\ ev.op = "tick"
  /\ ~crashed
  /\ \E g \in DOMAIN games :
       /\ games[g].finished
       /\ now - games[g].lastActivity > 24 * HourMs

(* C17.  In every reachable state the two slots of a session hold distinct *)
(* identities: no create, join or reconnect puts one identity in both      *)
(* players[0] and players[1].                                              *)
C17_SlotsHoldDistinctIdentities ==
  \A g \in DOMAIN games :
    Len(games[g].players) = 2 => games[g].players[1] # games[g].players[2]

(* C18.  In every reachable state each identity in a session's players has *)
(* a playerInfo entry whose colour is that of its slot ('w' for index 0,   *)
(* 'b' for index 1), and playerInfo has no entry for an identity that is   *)
(* not in players; reconnects, one whose previousId is the sender's own    *)
(* identity included, preserve this.                                       *)
C18_PlayerInfoMatchesSlots ==
  \A g \in DOMAIN games :
    /\ \A i \in 1..Len(games[g].players) :
         /\ games[g].players[i] \in DOMAIN games[g].playerInfo
         /\ games[g].playerInfo[games[g].players[i]].color = (IF i = 1 THEN "w" ELSE "b")
    /\ \A k \in DOMAIN games[g].playerInfo :
         \E i \in 1..Len(games[g].players) : games[g].players[i] = k

(* C19.  An accept-draw or resign-game sent by an identity that holds      *)
(* neither slot of the session (a stranger, or an identity superseded by a *)
(* reconnect) does not set finished or result and causes no draw-accepted  *)
(* or player-resigned broadcast.                                           *)
C19_OnlyPlayersEndTheSession ==
  [][\A g \in GameIds :
       ( /\ (Handles("accept-draw", g) \/ Handles("resign-game", g))
         /\ g \in DOMAIN games
         /\ \A i \in {0, 1} : ~InSlot(games[g], i, ev'.sender) )
       => /\ games'[g].finished = games[g].finished
          /\ games'[g].result = games[g].result
          /\ \A k \in 1..Len(out') :
               out'[k].event \notin {"draw-accepted", "player-resigned"}]_vars


\* The last handled event was a reconnect-to-game to session g that succeeded.
JustReconnected(g) ==
  /\ ev.op = "reconnect-to-game"
  /\ ev.gameId = g
  /\ Len(out) > 0
  /\ out[1].event = "reconnected-to-game"

(* C20.  When reconnect-to-game (new identity N, previousId P) is handled  *)
(* before the disconnect of the old identity P, that disconnect leaves the *)
(* session's playerInfo alone, sends no opponent-disconnected, and the     *)
(* entry under N stays connected = true.  In the opposite order, a         *)
(* reconnect that names an already disconnected P leaves N in P's slot     *)
(* with an entry that says connected = true.                               *)
C20_ReconnectRacesDisconnect ==
  [][\A g \in GameIds :
       /\ ( /\ JustReconnected(g)
            /\ ev.sender # ev.previousId
            /\ ev'.op = "disconnect"
            /\ ev'.sender = ev.previousId )
          => /\ games'[g].playerInfo = games[g].playerInfo
             /\ \A k \in 1..Len(out') : out'[k].event # "opponent-disconnected"
             /\ ev.sender \in DOMAIN games'[g].playerInfo
             /\ games'[g].playerInfo[ev.sender].connected
       /\ ( /\ Handles("reconnect-to-game", g)
            /\ g \in DOMAIN games
            /\ IsKnownPlayer(games[g], ev'.previousId)
            /\ sockets[ev'.previousId] = "closed" )
          => /\ InSlot(games'[g], IndexOf(games[g].players, ev'.previousId), ev'.sender)
             /\ ev'.sender \in DOMAIN games'[g].playerInfo
             /\ games'[g].playerInfo[ev'.sender].connected]_vars

====
